---- MODULE Spec2Model ----
(***************************************************************************)
(* A model of hera.model.Model (src/hera/model.py): the registry of        *)
(* actions, background conditions and consequences, the mechanism,         *)
(* utility and intention tables, and the public operations that edit them. *)
(*                                                                         *)
(* Python values are modelled as follows.                                  *)
(*   - a str is a TLA+ string; the one non-str argument the callers pass   *)
(*     (the tests use the int 42) is the token IntArg, which IsStr rejects;*)
(*   - a list is a sequence; a dict is a function whose DOMAIN is its key  *)
(*     set (the key order of a dict is not observable through the class:   *)
(*     dict equality ignores it and repr sorts the keys);                  *)
(*   - an exception is the value of err after the call ("none" when the    *)
(*     call returned), and the fields keep whatever the call had already   *)
(*     written when it raised.                                             *)
(***************************************************************************)
EXTENDS Integers, Sequences, FiniteSets, TLC

VARIABLES
    description,    \* self.__description
    actions,        \* self.__actions       (list of str)
    background,     \* self.__background    (list of str)
    consequences,   \* self.__consequences  (list of str)
    mechanisms,     \* self.__mechanisms    (dict: str -> list of str)
    utilities,      \* self.__utilities     (dict: str -> int)
    intentions,     \* self.__intentions    (dict: str -> list of str)
    tmp_file,       \* TRUE iff the file tmp_model.json exists
    last,           \* name of the public method called last
    err,            \* the exception that call raised, or "none"
    ncalls          \* number of calls made so far

fields == <<description, actions, background, consequences,
            mechanisms, utilities, intentions>>
vars == <<description, actions, background, consequences,
          mechanisms, utilities, intentions, tmp_file, last, err, ncalls>>

-----------------------------------------------------------------------------
(* Bounds of the exploration and the inputs the caller draws from.         *)

MaxCalls == 3

\* The number of calls of the longer runs (SpecLong).
LongCalls == 4

\* The names the caller uses.  "Not('A')" is an ordinary str, and it is
\* also what not_str returns for "A".
Names == {"A", "B", "Not('A')"}

\* The stand-in for a non-str argument (the int 42 of the tests).
IntArg == "<int 42>"

Values == Names \cup {IntArg}

IsStr(v) == v # IntArg

\* *args of the variadic methods: one argument, or a name followed by
\* another argument.
ArgLists ==
    {<<v>> : v \in Values}
    \cup UNION {{<<n, v>> : v \in Values \ {n}} : n \in Names}

Descriptions == {"Test", "Hello World!"}

\* Utility values the caller passes; NonInt stands for a non-int value
\* (the str '42' of the tests).
NonInt == 0 - 999
UtilityValues == {10, 0 - 10}

-----------------------------------------------------------------------------
(* Python list and dict primitives.                                        *)

EmptyDict == [k \in {} |-> <<>>]

\* x in lst
InList(x, lst) == \E i \in DOMAIN lst : lst[i] = x

\* set(lst)
ListSet(lst) == {lst[i] : i \in DOMAIN lst}

\* lst.index(x), for x in lst: the first position of x
IndexOf(x, lst) == CHOOSE i \in DOMAIN lst :
                       lst[i] = x /\ \A j \in 1..(i - 1) : lst[j] # x

\* lst.remove(x), for x in lst: drops the first occurrence of x
ListRemove(lst, x) ==
    LET p == IndexOf(x, lst)
    IN  SubSeq(lst, 1, p - 1) \o SubSeq(lst, p + 1, Len(lst))

\* d[k] = v
DictSet(d, k, v) == [x \in DOMAIN d \cup {k} |-> IF x = k THEN v ELSE d[x]]

\* del d[k], for k in d
DictDel(d, k) == [x \in DOMAIN d \ {k} |-> d[x]]

\* The object's fields as one record, and a call's outcome.
Self == [description |-> description, actions |-> actions,
         background |-> background, consequences |-> consequences,
         mechanisms |-> mechanisms, utilities |-> utilities,
         intentions |-> intentions]

Ok(m) == [m |-> m, err |-> "none"]
Raise(m, e) == [m |-> m, err |-> e]

-----------------------------------------------------------------------------
(* STRING MODIFIERS                                                        *)

not_str(variable) == "Not('" \o variable \o "')"

quote_str(variable) == "'" \o variable \o "'"

-----------------------------------------------------------------------------
(* VERIFICATION METHODS: each returns the exception it raises, or "none".  *)

check_type(isOfType, error) == IF isOfType THEN "none" ELSE error

\* __check_if_in_model raising the error of the type checks.
check_if_in_model_type_error(obj, obj_list) ==
    IF InList(obj, obj_list) THEN "none" ELSE "TypeError"

check_if_in_model(obj, obj_list) ==
    IF InList(obj, obj_list) THEN "none" ELSE "KeyError"

verify_description(d) == check_type(IsStr(d), "TypeError")

verify_action(m, action, check_in_model) ==
    IF check_type(IsStr(action), "TypeError") # "none" THEN "TypeError"
    ELSE IF check_in_model THEN check_if_in_model(action, m.actions)
    ELSE "none"

verify_background(m, bg_condition, check_in_model) ==
    IF check_type(IsStr(bg_condition), "TypeError") # "none" THEN "TypeError"
    ELSE IF check_in_model THEN check_if_in_model(bg_condition, m.background)
    ELSE "none"

verify_consequence(m, consequence, check_in_model) ==
    IF check_type(IsStr(consequence), "TypeError") # "none" THEN "TypeError"
    ELSE IF check_in_model
         THEN check_if_in_model(consequence, m.consequences)
    ELSE "none"

verify_utility(value) == check_type(value # NonInt, "TypeError")

\* __verify_variable without the membership check: only the type is checked.
verify_variable_type_only(m, variable, check_in_model) ==
    check_type(IsStr(variable), "TypeError")

verify_variable(m, variable, check_in_model) ==
    IF check_type(IsStr(variable), "TypeError") # "none" THEN "TypeError"
    ELSE IF check_in_model
         THEN check_if_in_model(variable,
                                m.actions \o m.consequences \o m.background)
    ELSE "none"

-----------------------------------------------------------------------------
(* LIST AND DICTIONARY MODIFIERS                                           *)

\* Removes the first occurrence of item from every list of the dict.
remove_item_from_list_dict(item, list_dict) ==
    [k \in DOMAIN list_dict |->
        IF InList(item, list_dict[k]) THEN ListRemove(list_dict[k], item)
        ELSE list_dict[k]]

append_if_new(item, item_list) ==
    IF InList(item, item_list) THEN item_list ELSE Append(item_list, item)

\* item_list[item_list.index(item_old)] = item_new, for item_old in item_list
rename_item_in_list(item_old, item_new, item_list) ==
    [item_list EXCEPT ![IndexOf(item_old, item_list)] = item_new]

\* if old in dictionary: dictionary[new] = dictionary.pop(old)
rename_key(old, new, dictionary) ==
    IF old \in DOMAIN dictionary
    THEN DictSet(DictDel(dictionary, old), new, dictionary[old])
    ELSE dictionary

\* The loop of the method runs over list_dict.items(), whose elements are
\* (key, list) tuples, and enumerates each tuple: its position 0 is the
\* key and its position 1 the list.  A list never equals the str item_old,
\* so no list element is ever replaced; a key equal to item_old makes the
\* method assign to the tuple, which raises TypeError.  Returns the dict
\* (with its keys renamed when rename_keys) and the exception.
rename_item_in_list_dict(item_old, item_new, list_dict, rename_keys) ==
    LET d == IF rename_keys THEN rename_key(item_old, item_new, list_dict)
             ELSE list_dict
    IN  [d |-> d,
         err |-> IF item_old \in DOMAIN d THEN "TypeError" ELSE "none"]

-----------------------------------------------------------------------------
(* ACTIONS                                                                 *)

RECURSIVE add_actions(_, _)
add_actions(m, args) ==
    IF args = <<>> THEN Ok(m)
    ELSE LET action == Head(args)
             e == verify_action(m, action, FALSE)
         IN  IF e # "none" THEN Raise(m, e)
             ELSE IF ~InList(action, m.actions)
             THEN add_actions(
                      [m EXCEPT !.actions = Append(@, action),
                                !.intentions = DictSet(@, action, <<action>>)],
                      Tail(args))
             ELSE add_actions(m, Tail(args))

RECURSIVE remove_actions(_, _)
remove_actions(m, args) ==
    IF args = <<>> THEN Ok(m)
    ELSE LET action == Head(args)
             e == verify_action(m, action, FALSE)
             m1 == [m EXCEPT !.actions = ListRemove(@, action)]
         IN  IF e # "none" THEN Raise(m, e)
             ELSE IF InList(action, m.actions)
             THEN \* del self.__intentions[action] raises KeyError when
                  \* the key is missing
                  IF action \notin DOMAIN m1.intentions
                  THEN Raise(m1, "KeyError")
                  ELSE remove_actions(
                           [m1 EXCEPT
                               !.intentions = DictDel(@, action),
                               !.mechanisms =
                                   remove_item_from_list_dict(action, @)],
                           Tail(args))
             ELSE remove_actions(m, Tail(args))

rename_action(m, action_old, action_new) ==
    LET e1 == verify_action(m, action_old, TRUE)
        e2 == verify_action(m, action_new, FALSE)
        m1 == [m EXCEPT !.actions =
                            rename_item_in_list(action_old, action_new, @)]
        r2 == rename_item_in_list_dict(action_old, action_new,
                                       m1.mechanisms, FALSE)
        m2 == [m1 EXCEPT !.mechanisms = r2.d]
        r3 == rename_item_in_list_dict(action_old, action_new,
                                       m2.intentions, TRUE)
        m3 == [m2 EXCEPT !.intentions = r3.d]
    IN  IF e1 # "none" THEN Raise(m, e1)
        ELSE IF e2 # "none" THEN Raise(m, e2)
        ELSE IF r2.err # "none" THEN Raise(m2, r2.err)
        ELSE Raise(m3, r3.err)

-----------------------------------------------------------------------------
(* BACKGROUND                                                              *)

RECURSIVE add_background(_, _)
add_background(m, args) ==
    IF args = <<>> THEN Ok(m)
    ELSE LET bg_condition == Head(args)
             e == verify_background(m, bg_condition, FALSE)
         IN  IF e # "none" THEN Raise(m, e)
             ELSE add_background(
                      [m EXCEPT !.background =
                                    append_if_new(bg_condition, @)],
                      Tail(args))

\* remove_background cleaning the mechanisms whether or not the condition
\* is registered (first argument only).
remove_background_unguarded(m, args) ==
    IF args = <<>> THEN Ok(m)
    ELSE Ok([m EXCEPT
                !.background = IF InList(Head(args), @)
                               THEN ListRemove(@, Head(args)) ELSE @,
                !.mechanisms = remove_item_from_list_dict(Head(args), @)])

RECURSIVE remove_background(_, _)
remove_background(m, args) ==
    IF args = <<>> THEN Ok(m)
    ELSE LET bg_condition == Head(args)
             e == verify_background(m, bg_condition, FALSE)
         IN  IF e # "none" THEN Raise(m, e)
             ELSE IF InList(bg_condition, m.background)
             THEN remove_background(
                      [m EXCEPT
                          !.background = ListRemove(@, bg_condition),
                          !.mechanisms =
                              remove_item_from_list_dict(bg_condition, @)],
                      Tail(args))
             ELSE remove_background(m, Tail(args))

rename_background(m, bg_old, bg_new) ==
    LET e1 == verify_background(m, bg_old, TRUE)
        e2 == verify_background(m, bg_new, FALSE)
        m1 == [m EXCEPT !.background =
                            rename_item_in_list(bg_old, bg_new, @)]
        r2 == rename_item_in_list_dict(bg_old, bg_new, m1.mechanisms, FALSE)
        m2 == [m1 EXCEPT !.mechanisms = r2.d]
    IN  IF e1 # "none" THEN Raise(m, e1)
        ELSE IF e2 # "none" THEN Raise(m, e2)
        ELSE Raise(m2, r2.err)

-----------------------------------------------------------------------------
(* CONSEQUENCES                                                            *)

RECURSIVE add_consequences(_, _)
add_consequences(m, args) ==
    IF args = <<>> THEN Ok(m)
    ELSE LET consequence == Head(args)
             e == verify_consequence(m, consequence, FALSE)
         IN  IF e # "none" THEN Raise(m, e)
             ELSE \* the mechanism entry is assigned whether or not the
                  \* consequence was new
                  add_consequences(
                      [m EXCEPT
                          !.consequences = append_if_new(consequence, @),
                          !.mechanisms = DictSet(@, consequence, <<>>)],
                      Tail(args))

\* remove_consequences without the deletion of the utilities.
DelUtilities_kept(utils, keys) == utils

\* del self.__utilities[k] for each k of keys that is in the dict
DelUtilities(utils, keys) == [k \in DOMAIN utils \ keys |-> utils[k]]

RECURSIVE remove_consequences(_, _)
remove_consequences(m, args) ==
    IF args = <<>> THEN Ok(m)
    ELSE LET consequence == Head(args)
             e == verify_consequence(m, consequence, FALSE)
         IN  IF e # "none" THEN Raise(m, e)
             ELSE IF InList(consequence, m.consequences)
             THEN remove_consequences(
                      [m EXCEPT
                          !.consequences = ListRemove(@, consequence),
                          !.mechanisms =
                              IF consequence \in DOMAIN @
                              THEN DictDel(@, consequence) ELSE @,
                          !.utilities =
                              DelUtilities(@, {consequence,
                                               not_str(consequence)}),
                          !.intentions =
                              remove_item_from_list_dict(consequence, @)],
                      Tail(args))
             ELSE remove_consequences(m, Tail(args))

rename_consequence(m, con_old, con_new) ==
    LET e1 == verify_consequence(m, con_old, TRUE)
        e2 == verify_consequence(m, con_new, FALSE)
        m1 == [m EXCEPT !.consequences =
                            rename_item_in_list(con_old, con_new, @)]
        r2 == rename_item_in_list_dict(con_old, con_new, m1.mechanisms, TRUE)
        m2 == [m1 EXCEPT !.mechanisms = r2.d]
        m3 == [m2 EXCEPT !.utilities =
                   rename_key(not_str(con_old), not_str(con_new),
                              rename_key(con_old, con_new, @))]
        r4 == rename_item_in_list_dict(con_old, con_new,
                                       m3.intentions, FALSE)
        m4 == [m3 EXCEPT !.intentions = r4.d]
    IN  IF e1 # "none" THEN Raise(m, e1)
        ELSE IF e2 # "none" THEN Raise(m, e2)
        ELSE IF r2.err # "none" THEN Raise(m2, r2.err)
        ELSE Raise(m4, r4.err)

-----------------------------------------------------------------------------
(* MECHANISMS                                                              *)

\* The loop of add_mechanisms over *variables.  self.__mechanisms[c]
\* raises KeyError when c is no key of the dict.
RECURSIVE add_mechanisms_loop(_, _, _)
add_mechanisms_loop(m, consequence, variables) ==
    IF variables = <<>> THEN Ok(m)
    ELSE LET variable == Head(variables)
             e == verify_variable(m, variable, TRUE)
         IN  IF e # "none" THEN Raise(m, e)
             ELSE IF consequence \notin DOMAIN m.mechanisms
             THEN Raise(m, "KeyError")
             ELSE add_mechanisms_loop(
                      [m EXCEPT !.mechanisms[consequence] =
                                    append_if_new(variable, @)],
                      consequence, Tail(variables))

add_mechanisms(m, consequence, variables) ==
    LET e == verify_consequence(m, consequence, TRUE)
    IN  IF e # "none" THEN Raise(m, e)
        ELSE add_mechanisms_loop(m, consequence, variables)

\* The loop of remove_mechanisms: the variables are not type-checked.
RECURSIVE remove_mechanisms_loop(_, _, _)
remove_mechanisms_loop(m, consequence, mechanism) ==
    IF mechanism = <<>> THEN Ok(m)
    ELSE LET variable == Head(mechanism)
         IN  IF consequence \notin DOMAIN m.mechanisms
             THEN Raise(m, "KeyError")
             ELSE IF InList(variable, m.mechanisms[consequence])
             THEN remove_mechanisms_loop(
                      [m EXCEPT !.mechanisms[consequence] =
                                    ListRemove(@, variable)],
                      consequence, Tail(mechanism))
             ELSE remove_mechanisms_loop(m, consequence, Tail(mechanism))

remove_mechanisms(m, consequence, mechanism) ==
    LET e == verify_consequence(m, consequence, TRUE)
    IN  IF e # "none" THEN Raise(m, e)
        ELSE remove_mechanisms_loop(m, consequence, mechanism)

-----------------------------------------------------------------------------
(* UTILITIES                                                               *)

set_utility(m, consequence, value, affirmation) ==
    LET e1 == verify_utility(value)
        e2 == verify_consequence(m, consequence, TRUE)
        key == IF affirmation THEN consequence ELSE not_str(consequence)
    IN  IF e1 # "none" THEN Raise(m, e1)
        ELSE IF e2 # "none" THEN Raise(m, e2)
        ELSE Ok([m EXCEPT !.utilities = DictSet(@, key, value)])

remove_utility(m, consequence, affirmation) ==
    LET e == verify_consequence(m, consequence, FALSE)
        key == IF affirmation THEN consequence ELSE not_str(consequence)
    IN  IF e # "none" THEN Raise(m, e)
        ELSE IF key \in DOMAIN m.utilities
        THEN Ok([m EXCEPT !.utilities = DictDel(@, key)])
        ELSE Ok(m)

-----------------------------------------------------------------------------
(* INTENTIONS                                                              *)

RECURSIVE add_intentions_loop(_, _, _)
add_intentions_loop(m, action, cons) ==
    IF cons = <<>> THEN Ok(m)
    ELSE LET consequence == Head(cons)
             e == verify_consequence(m, consequence, TRUE)
         IN  IF e # "none" THEN Raise(m, e)
             ELSE IF action \notin DOMAIN m.intentions
             THEN Raise(m, "KeyError")
             ELSE add_intentions_loop(
                      [m EXCEPT !.intentions[action] =
                                    append_if_new(consequence, @)],
                      action, Tail(cons))

add_intentions(m, action, cons) ==
    LET e == verify_action(m, action, TRUE)
    IN  IF e # "none" THEN Raise(m, e)
        ELSE add_intentions_loop(m, action, cons)

RECURSIVE remove_intentions_loop(_, _, _)
remove_intentions_loop(m, action, cons) ==
    IF cons = <<>> THEN Ok(m)
    ELSE LET consequence == Head(cons)
             e == verify_consequence(m, consequence, TRUE)
         IN  IF e # "none" THEN Raise(m, e)
             ELSE IF action \notin DOMAIN m.intentions
             THEN Raise(m, "KeyError")
             ELSE IF InList(consequence, m.intentions[action])
             THEN remove_intentions_loop(
                      [m EXCEPT !.intentions[action] =
                                    ListRemove(@, consequence)],
                      action, Tail(cons))
             ELSE remove_intentions_loop(m, action, Tail(cons))

remove_intentions(m, action, cons) ==
    LET e == verify_action(m, action, TRUE)
    IN  IF e # "none" THEN Raise(m, e)
        ELSE remove_intentions_loop(m, action, cons)

-----------------------------------------------------------------------------
(* GENERAL: reset, check, set_description                                  *)

\* reset clearing the lists only (isinstance(attr, dict) left out).
reset_lists_only(m) ==
    Ok([m EXCEPT !.actions = <<>>, !.background = <<>>,
                 !.consequences = <<>>])

reset(m) ==
    Ok([m EXCEPT !.actions = <<>>, !.background = <<>>,
                 !.consequences = <<>>, !.mechanisms = EmptyDict,
                 !.utilities = EmptyDict, !.intentions = EmptyDict])

\* The loop of check over a suffix of self.__consequences.
RECURSIVE check_loop(_, _)
check_loop(m, cons) ==
    IF cons = <<>> THEN "none"
    ELSE IF Head(cons) \notin DOMAIN m.mechanisms THEN "KeyError"
    ELSE IF m.mechanisms[Head(cons)] = <<>> THEN "RuntimeError"
    ELSE check_loop(m, Tail(cons))

check(m) == Raise(m, check_loop(m, m.consequences))

set_description(m, d) ==
    LET e == verify_description(d)
    IN  IF e # "none" THEN Raise(m, e)
        ELSE Ok([m EXCEPT !.description = d])

-----------------------------------------------------------------------------
(* SERIALIZATION: __repr__ and __conjunct_list                             *)

\* The code points of the characters of a name of the caller.
CodePoints(name) ==
    CASE name = "A" -> <<65>>
      [] name = "B" -> <<66>>
      [] name = "Not('A')" -> <<78, 111, 116, 40, 39, 65, 39, 41>>
      [] OTHER -> <<>>

\* The code points of quote_str(name): the quote character is 39.
QuotedCodePoints(name) == <<39>> \o CodePoints(name) \o <<39>>

\* a < b for two Python strings given by their code points
RECURSIVE StrLess(_, _)
StrLess(a, b) ==
    IF b = <<>> THEN FALSE
    ELSE IF a = <<>> THEN TRUE
    ELSE IF Head(a) # Head(b) THEN Head(a) < Head(b)
    ELSE StrLess(Tail(a), Tail(b))

\* Inserts name into a list of names sorted by their quoted form.
RECURSIVE InsertSorted(_, _)
InsertSorted(name, sorted) ==
    IF sorted = <<>> THEN <<name>>
    ELSE IF StrLess(QuotedCodePoints(name), QuotedCodePoints(Head(sorted)))
    THEN <<name>> \o sorted
    ELSE <<Head(sorted)>> \o InsertSorted(name, Tail(sorted))

\* quoted_mechs = [quote_str(mech) for mech in mech_list]; quoted_mechs.sort()
RECURSIVE SortByQuoted(_)
SortByQuoted(mech_list) ==
    IF mech_list = <<>> THEN <<>>
    ELSE InsertSorted(Head(mech_list), SortByQuoted(Tail(mech_list)))

\* __repr__ without the call of quoted_mechs.sort().
quoted_unsorted(mech_list) ==
    [i \in DOMAIN mech_list |-> quote_str(mech_list[i])]

quoted_sorted(mech_list) ==
    LET names == SortByQuoted(mech_list)
    IN  [i \in DOMAIN names |-> quote_str(names[i])]

\* for string in str_list: curr = 'And(' + curr + ', ' + string + ')'
RECURSIVE conjunct_fold(_, _)
conjunct_fold(curr, str_list) ==
    IF str_list = <<>> THEN curr
    ELSE conjunct_fold("And(" \o curr \o ", " \o Head(str_list) \o ")",
                       Tail(str_list))

conjunct_list(str_list) ==
    IF str_list = <<>> THEN ""
    ELSE conjunct_fold(Head(str_list), Tail(str_list))

\* The dict that __repr__ hands to json.dumps.
repr(m) ==
    [description |-> m.description,
     actions |-> m.actions,
     background |-> m.background,
     consequences |-> m.consequences,
     mechanisms |-> [key \in DOMAIN m.mechanisms |->
                        conjunct_list(quoted_sorted(m.mechanisms[key]))],
     utilities |-> m.utilities,
     intentions |-> m.intentions]

\* quoted_mechs.sort() and str_list.pop(0) acting on mech_list itself.
mech_list_sorted_in_place(mech_list) ==
    IF mech_list = <<>> THEN <<>> ELSE Tail(SortByQuoted(mech_list))

\* The list mech_list after one pass of the loop of __repr__: the
\* comprehension builds quoted_mechs as a new list, and sort() and the
\* pop(0) of __conjunct_list act on that list.
mech_list_after_repr(mech_list) == mech_list

\* The call repr(model): the model it leaves.  json.dumps reads model_dict.
repr_call(m) ==
    Ok([m EXCEPT !.mechanisms =
            [key \in DOMAIN m.mechanisms |->
                mech_list_after_repr(m.mechanisms[key])]])

-----------------------------------------------------------------------------
(* EXPORT                                                                  *)

\* The values a caller assigns: 0 and 1, and 2 for an invalid value.
AssignValues == {0, 1, 2}

Assignments == UNION {[keys -> AssignValues] : keys \in SUBSET Names}

AssignedValues(assignment) == {assignment[k] : k \in DOMAIN assignment}

\* export without its second check: an assignment with a key that is no
\* action and no background condition goes on to the value check.
export_check_missing_keys_only(m, assignment) ==
    LET keys == DOMAIN assignment
        model_vars == ListSet(m.actions \o m.background)
    IN  IF keys \subseteq model_vars /\ keys # model_vars THEN "KeyError"
        ELSE IF AssignedValues(assignment) # {0, 1} THEN "ValueError"
        ELSE "none"

\* The three checks at the head of export: the exception raised, or "none".
export_check(m, assignment) ==
    LET keys == DOMAIN assignment
        model_vars == ListSet(m.actions \o m.background)
    IN  IF keys \subseteq model_vars /\ keys # model_vars THEN "KeyError"
        ELSE IF keys # model_vars THEN "KeyError"
        ELSE IF AssignedValues(assignment) # {0, 1} THEN "ValueError"
        ELSE "none"

-----------------------------------------------------------------------------
(* The state machine: one action per public method.  A call is one step;   *)
(* it leaves in the fields what the method had written when it returned or *)
(* raised.                                                                 *)

Init ==
    /\ description = "Test"
    /\ actions = <<>>
    /\ background = <<>>
    /\ consequences = <<>>
    /\ mechanisms = EmptyDict
    /\ utilities = EmptyDict
    /\ intentions = EmptyDict
    /\ tmp_file = FALSE
    /\ last = "__init__"
    /\ err = "none"
    /\ ncalls = 0

\* The step of a call of method `name` whose outcome is r.
Call(name, r) ==
    /\ last' = name
    /\ err' = r.err
    /\ ncalls' = ncalls + 1
    /\ description' = r.m.description
    /\ actions' = r.m.actions
    /\ background' = r.m.background
    /\ consequences' = r.m.consequences
    /\ mechanisms' = r.m.mechanisms
    /\ utilities' = r.m.utilities
    /\ intentions' = r.m.intentions

CallAddActions(args) ==
    Call("add_actions", add_actions(Self, args)) /\ UNCHANGED tmp_file
CallRemoveActions(args) ==
    Call("remove_actions", remove_actions(Self, args)) /\ UNCHANGED tmp_file
CallRenameAction(old, new) ==
    Call("rename_action", rename_action(Self, old, new))
    /\ UNCHANGED tmp_file

CallAddBackground(args) ==
    Call("add_background", add_background(Self, args)) /\ UNCHANGED tmp_file
CallRemoveBackground(args) ==
    Call("remove_background", remove_background(Self, args))
    /\ UNCHANGED tmp_file
CallRenameBackground(old, new) ==
    Call("rename_background", rename_background(Self, old, new))
    /\ UNCHANGED tmp_file

CallAddConsequences(args) ==
    Call("add_consequences", add_consequences(Self, args))
    /\ UNCHANGED tmp_file
CallRemoveConsequences(args) ==
    Call("remove_consequences", remove_consequences(Self, args))
    /\ UNCHANGED tmp_file
CallRenameConsequence(old, new) ==
    Call("rename_consequence", rename_consequence(Self, old, new))
    /\ UNCHANGED tmp_file

CallAddMechanisms(c, args) ==
    Call("add_mechanisms", add_mechanisms(Self, c, args))
    /\ UNCHANGED tmp_file
CallRemoveMechanisms(c, args) ==
    Call("remove_mechanisms", remove_mechanisms(Self, c, args))
    /\ UNCHANGED tmp_file

CallSetUtility(c, value, affirmation) ==
    Call("set_utility", set_utility(Self, c, value, affirmation))
    /\ UNCHANGED tmp_file
CallRemoveUtility(c, affirmation) ==
    Call("remove_utility", remove_utility(Self, c, affirmation))
    /\ UNCHANGED tmp_file

CallAddIntentions(a, args) ==
    Call("add_intentions", add_intentions(Self, a, args))
    /\ UNCHANGED tmp_file
CallRemoveIntentions(a, args) ==
    Call("remove_intentions", remove_intentions(Self, a, args))
    /\ UNCHANGED tmp_file

CallReset == Call("reset", reset(Self)) /\ UNCHANGED tmp_file
CallCheck == Call("check", check(Self)) /\ UNCHANGED tmp_file
CallSetDescription(d) ==
    Call("set_description", set_description(Self, d)) /\ UNCHANGED tmp_file

\* repr(model) returns the serialization of repr(Self).  It sorts and pops
\* quoted_mechs, a list it has built itself, and assigns to no field.
CallRepr == Call("__repr__", repr_call(Self)) /\ UNCHANGED tmp_file

\* export(assignment).  After the checks the method writes repr(self) to
\* tmp_model.json, calls the external CausalModel constructor, and removes
\* the file on the line after that call: when the constructor raises
\* (evaluator_ok = FALSE) the removal is not reached.
CallExport(assignment, evaluator_ok) ==
    LET e == export_check(Self, assignment)
    IN  IF e # "none"
        THEN Call("export", Raise(Self, e)) /\ UNCHANGED tmp_file
        ELSE /\ Call("export",
                     Raise(repr_call(Self).m,
                           IF evaluator_ok THEN "none" ELSE "EvaluatorError"))
             /\ tmp_file' = ~evaluator_ok

\* The inputs of a call.  A method that rejects its first argument raises
\* before it reads the others, so that one choice of the others stands
\* for all of them: the steps are the same.
RestFor(first_error, all, one) == IF first_error = "none" THEN all ELSE {one}

\* The caller makes at most MaxCalls calls.
CanCall == ncalls < MaxCalls

AddActions ==
    /\ CanCall
    /\ \E args \in ArgLists : CallAddActions(args)

RemoveActions ==
    /\ CanCall
    /\ \E args \in ArgLists : CallRemoveActions(args)

RenameAction ==
    /\ CanCall
    /\ \E old \in Values :
           \E new \in RestFor(verify_action(Self, old, TRUE), Values, old) :
               CallRenameAction(old, new)

AddBackground ==
    /\ CanCall
    /\ \E args \in ArgLists : CallAddBackground(args)

RemoveBackground ==
    /\ CanCall
    /\ \E args \in ArgLists : CallRemoveBackground(args)

RenameBackground ==
    /\ CanCall
    /\ \E old \in Values :
           \E new \in RestFor(verify_background(Self, old, TRUE),
                               Values, old) :
               CallRenameBackground(old, new)

AddConsequences ==
    /\ CanCall
    /\ \E args \in ArgLists : CallAddConsequences(args)

RemoveConsequences ==
    /\ CanCall
    /\ \E args \in ArgLists : CallRemoveConsequences(args)

RenameConsequence ==
    /\ CanCall
    /\ \E old \in Values :
           \E new \in RestFor(verify_consequence(Self, old, TRUE),
                               Values, old) :
               CallRenameConsequence(old, new)

AddMechanisms ==
    /\ CanCall
    /\ \E c \in Values :
           \E args \in RestFor(verify_consequence(Self, c, TRUE),
                               ArgLists, <<c>>) :
               CallAddMechanisms(c, args)

RemoveMechanisms ==
    /\ CanCall
    /\ \E c \in Values :
           \E args \in RestFor(verify_consequence(Self, c, TRUE),
                               ArgLists, <<c>>) :
               CallRemoveMechanisms(c, args)

SetUtility ==
    /\ CanCall
    /\ \E value \in UtilityValues \cup {NonInt} :
           \E c \in RestFor(verify_utility(value), Values, IntArg) :
               \E affirmation \in RestFor(verify_consequence(Self, c, TRUE),
                                          BOOLEAN, TRUE) :
                   CallSetUtility(c, value, affirmation)

RemoveUtility ==
    /\ CanCall
    /\ \E c \in Values :
           \E affirmation \in RestFor(verify_consequence(Self, c, FALSE),
                                      BOOLEAN, TRUE) :
               CallRemoveUtility(c, affirmation)

AddIntentions ==
    /\ CanCall
    /\ \E a \in Values :
           \E args \in RestFor(verify_action(Self, a, TRUE),
                               ArgLists, <<a>>) :
               CallAddIntentions(a, args)

RemoveIntentions ==
    /\ CanCall
    /\ \E a \in Values :
           \E args \in RestFor(verify_action(Self, a, TRUE),
                               ArgLists, <<a>>) :
               CallRemoveIntentions(a, args)

Reset ==
    /\ CanCall
    /\ CallReset

Check ==
    /\ CanCall
    /\ CallCheck

SetDescription ==
    /\ CanCall
    /\ \E d \in Descriptions \cup {IntArg} : CallSetDescription(d)

Repr ==
    /\ CanCall
    /\ CallRepr

\* The assignments the caller passes over a key set: every assignment when
\* the keys are those of the model; otherwise export raises before it
\* reads the values, and the assignment of the invalid value 2 to every
\* key stands for all.
ExportAssignments(keys) ==
    IF keys = ListSet(actions \o background)
    THEN [keys -> AssignValues]
    ELSE {[k \in keys |-> 2]}

Export ==
    /\ CanCall
    /\ \E keys \in SUBSET Names :
           \E assignment \in ExportAssignments(keys) :
               \/ CallExport(assignment, TRUE)
               \/ /\ export_check(Self, assignment) = "none"
                  /\ CallExport(assignment, FALSE)

Next ==
    \/ AddActions \/ RemoveActions \/ RenameAction
    \/ AddBackground \/ RemoveBackground \/ RenameBackground
    \/ AddConsequences \/ RemoveConsequences \/ RenameConsequence
    \/ AddMechanisms \/ RemoveMechanisms
    \/ SetUtility \/ RemoveUtility
    \/ AddIntentions \/ RemoveIntentions
    \/ Reset \/ Check \/ SetDescription \/ Repr \/ Export

Spec == Init /\ [][Next]_vars

\* The model the tests start from (setUp), with one name of each kind: an
\* action, a background condition, and a consequence that has a mechanism
\* over both, the two utilities, and is intended by the action.  It is the
\* model after add_actions("A"), add_background("B"),
\* add_consequences("Not('A')"), add_mechanisms("Not('A')", "B", "A"),
\* set_utility("Not('A')", 10), set_utility("Not('A')", -10, False) and
\* add_intentions("A", "Not('A')").
SetUp ==
    [description |-> "Test",
     actions |-> <<"A">>,
     background |-> <<"B">>,
     consequences |-> <<"Not('A')">>,
     mechanisms |-> DictSet(EmptyDict, "Not('A')", <<"B", "A">>),
     utilities |-> DictSet(DictSet(EmptyDict, "Not('A')", 10),
                           not_str("Not('A')"), 0 - 10),
     intentions |-> DictSet(EmptyDict, "A", <<"A", "Not('A')">>)]

InitSetUp ==
    /\ description = SetUp.description
    /\ actions = SetUp.actions
    /\ background = SetUp.background
    /\ consequences = SetUp.consequences
    /\ mechanisms = SetUp.mechanisms
    /\ utilities = SetUp.utilities
    /\ intentions = SetUp.intentions
    /\ tmp_file = FALSE
    /\ last = "__init__"
    /\ err = "none"
    /\ ncalls = 0

SpecSetUp == InitSetUp /\ [][Next]_vars

\* The empty model again, for runs of LongCalls calls: ncalls counts the
\* calls against the budget MaxCalls, so the run starts LongCalls below it.
InitLong ==
    /\ description = "Test"
    /\ actions = <<>>
    /\ background = <<>>
    /\ consequences = <<>>
    /\ mechanisms = EmptyDict
    /\ utilities = EmptyDict
    /\ intentions = EmptyDict
    /\ tmp_file = FALSE
    /\ last = "__init__"
    /\ err = "none"
    /\ ncalls = MaxCalls - LongCalls

SpecLong == InitLong /\ [][Next]_vars

-----------------------------------------------------------------------------
(* Vocabulary of the properties.                                           *)

Registered ==
    ListSet(actions) \cup ListSet(background) \cup ListSet(consequences)

NoDuplicates(lst) ==
    \A i, j \in DOMAIN lst : lst[i] = lst[j] => i = j

\* lst with every occurrence of old replaced by new, in place
Renamed(lst, old, new) ==
    [i \in DOMAIN lst |-> IF lst[i] = old THEN new ELSE lst[i]]

\* Every list of the table before the step is, in the table after it,
\* stored under its key (or under new when its key was old) with old
\* replaced by new at the same positions, and no list of the table after
\* the step holds old.
ListsRenamed(table, table_after, old, new) ==
    /\ \A k \in DOMAIN table :
           \E k2 \in {k, IF k = old THEN new ELSE k} \cap DOMAIN table_after :
               table_after[k2] = Renamed(table[k], old, new)
    /\ \A k \in DOMAIN table_after : ~InList(old, table_after[k])

\* lst without any occurrence of x, the other elements in their order
Without(lst, x) == SelectSeq(lst, LAMBDA y : y # x)

\* The utility table with the affirmed and the negated entry of old, as
\* far as they exist, stored for new instead, and every other entry kept.
UtilitiesRenamed(utils, old, new) ==
    LET moved == {<<k[2], utils[k[1]]>> :
                     k \in {p \in {<<old, new>>,
                                   <<not_str(old), not_str(new)>>} :
                               p[1] \in DOMAIN utils}}
        kept == DOMAIN utils \ {old, not_str(old)}
    IN  [k \in kept \cup {e[1] : e \in moved} |->
            IF \E e \in moved : e[1] = k
            THEN (CHOOSE e \in moved : e[1] = k)[2]
            ELSE utils[k]]

\* What a variable passed to add_mechanisms is, seen from the state: no
\* str, a str that is registered nowhere, or a registered name.
VariableKind(v) ==
    IF ~IsStr(v) THEN "no str"
    ELSE IF v \notin Registered THEN "unregistered"
    ELSE "registered"

\* The registry membership of a model: the names of each kind.
Membership(m) ==
    <<ListSet(m.actions), ListSet(m.background), ListSet(m.consequences)>>

-----------------------------------------------------------------------------
(* C1: rename_action, rename_background and rename_consequence, called     *)
(* with an old name registered in that kind and a new name that is already *)
(* registered in the same kind, raise ValueError and leave the registry    *)
(* lists and the mechanism, utility and intention tables as they were.     *)
C1_RenameToExistingRaisesValueError ==
    [][\A old, new \in Names :
          /\ (/\ CallRenameAction(old, new)
              /\ InList(old, actions) /\ InList(new, actions))
             => (err' = "ValueError" /\ UNCHANGED fields)
          /\ (/\ CallRenameBackground(old, new)
              /\ InList(old, background) /\ InList(new, background))
             => (err' = "ValueError" /\ UNCHANGED fields)
          /\ (/\ CallRenameConsequence(old, new)
              /\ InList(old, consequences) /\ InList(new, consequences))
             => (err' = "ValueError" /\ UNCHANGED fields)]_vars

(* C2: after a rename_action, rename_background or rename_consequence that  *)
(* returns (old registered in that kind, new registered nowhere), no        *)
(* mechanism list and no intention list holds old, and every list that held *)
(* old holds new at the same index, its other elements unchanged.           *)
C2_RenameReplacesEveryReference ==
    [][\A old, new \in Names :
          (/\ \/ CallRenameAction(old, new) /\ InList(old, actions)
              \/ CallRenameBackground(old, new) /\ InList(old, background)
              \/ CallRenameConsequence(old, new)
                 /\ InList(old, consequences)
           /\ new \notin Registered
           /\ err' = "none")
          => /\ ListsRenamed(mechanisms, mechanisms', old, new)
             /\ ListsRenamed(intentions, intentions', old, new)]_vars

(* C3: in every reachable state every name in every mechanism variable     *)
(* list is registered as an action, a background condition or a            *)
(* consequence.                                                            *)
C3_MechanismVariablesRegistered ==
    \A k \in DOMAIN mechanisms :
        ListSet(mechanisms[k]) \subseteq Registered

(* C4: in every reachable state the intention list of every registered     *)
(* action holds that action's own name.                                    *)
C4_IntentionHoldsOwnAction ==
    \A a \in ListSet(actions) :
        a \in DOMAIN intentions /\ InList(a, intentions[a])

(* C5: in every reachable state the keys of the mechanism table are        *)
(* exactly the registered consequences.                                    *)
C5_MechanismKeysAreConsequences ==
    DOMAIN mechanisms = ListSet(consequences)

(* C6: in every reachable state the keys of the intention table are        *)
(* exactly the registered actions.                                         *)
C6_IntentionKeysAreActions ==
    DOMAIN intentions = ListSet(actions)

(* C7: in every reachable state every element of an action's intention     *)
(* list is that action's own name or a registered consequence.             *)
C7_IntentionsAreOwnNameOrConsequence ==
    \A a \in DOMAIN intentions :
        ListSet(intentions[a]) \subseteq {a} \cup ListSet(consequences)

(* C8: in every reachable state no name is registered under two kinds: the *)
(* action, background and consequence lists are pairwise disjoint.         *)
C8_KindsDisjoint ==
    /\ ListSet(actions) \cap ListSet(background) = {}
    /\ ListSet(actions) \cap ListSet(consequences) = {}
    /\ ListSet(background) \cap ListSet(consequences) = {}

(* C9: in every reachable state no ordered collection holds a duplicate:   *)
(* the three registry lists, every mechanism list, every intention list.   *)
C9_NoDuplicates ==
    /\ NoDuplicates(actions)
    /\ NoDuplicates(background)
    /\ NoDuplicates(consequences)
    /\ \A k \in DOMAIN mechanisms : NoDuplicates(mechanisms[k])
    /\ \A a \in DOMAIN intentions : NoDuplicates(intentions[a])

(* C10: add_actions, add_background and add_consequences called with a     *)
(* name already registered in that kind leave the registry and the         *)
(* mechanism, utility and intention tables unchanged.                      *)
C10_AddExistingChangesNothing ==
    [][\A n \in Names :
          /\ (CallAddActions(<<n>>) /\ InList(n, actions))
             => UNCHANGED fields
          /\ (CallAddBackground(<<n>>) /\ InList(n, background))
             => UNCHANGED fields
          /\ (CallAddConsequences(<<n>>) /\ InList(n, consequences))
             => UNCHANGED fields]_vars

(* C11: remove_actions and remove_background, called with a registered     *)
(* action resp. background condition V, remove V from every mechanism      *)
(* list that holds it and change nothing else in the mechanism table: the  *)
(* keys are the same and every list keeps its other variables in order.    *)
C11_RemoveVariableOnlyFromMechanisms ==
    [][\A v \in Names :
          (\/ CallRemoveActions(<<v>>) /\ InList(v, actions)
           \/ CallRemoveBackground(<<v>>) /\ InList(v, background))
          => /\ DOMAIN mechanisms' = DOMAIN mechanisms
             /\ \A k \in DOMAIN mechanisms :
                    mechanisms'[k] = Without(mechanisms[k], v)]_vars

(* C12: remove_consequences(C) for a registered consequence C deletes C    *)
(* from the consequence list, deletes the mechanism entry keyed C and the  *)
(* utility entries keyed C and Not('C'), and removes C from every          *)
(* intention list; the mechanism entries, the affirmed and negated utility *)
(* entries and the intention-list memberships of every other consequence   *)
(* are unchanged.                                                          *)
C12_RemoveConsequenceCascade ==
    [][\A c \in Names :
          (CallRemoveConsequences(<<c>>) /\ InList(c, consequences))
          => /\ Len(consequences') < Len(consequences)
             /\ Without(consequences', c) = Without(consequences, c)
             /\ DOMAIN mechanisms' = DOMAIN mechanisms \ {c}
             /\ \A k \in DOMAIN mechanisms' : mechanisms'[k] = mechanisms[k]
             /\ DOMAIN utilities' \cap {c, not_str(c)} = {}
             /\ \A d \in ListSet(consequences) \ {c} :
                    \A key \in {d, not_str(d)} \cap DOMAIN utilities :
                        /\ key \in DOMAIN utilities'
                        /\ utilities'[key] = utilities[key]
             /\ DOMAIN intentions' = DOMAIN intentions
             /\ \A a \in DOMAIN intentions :
                    intentions'[a] = Without(intentions[a], c)]_vars

(* C13: a public mutator that raises leaves the registry lists and the     *)
(* mechanism, utility and intention tables exactly as before the call: a   *)
(* multi-argument call whose later argument is invalid applies none of its *)
(* earlier arguments, and a rename that raises has renamed nothing.        *)
C13_RaisingCallChangesNothing ==
    [][(/\ last' \in {"add_actions", "remove_actions", "rename_action",
                      "add_background", "remove_background",
                      "rename_background", "add_consequences",
                      "remove_consequences", "rename_consequence",
                      "add_mechanisms", "remove_mechanisms", "set_utility",
                      "remove_utility", "add_intentions",
                      "remove_intentions", "set_description", "reset"}
        /\ err' # "none")
       => UNCHANGED <<actions, background, consequences,
                      mechanisms, utilities, intentions>>]_vars

(* C14: rename_consequence(old, new) with old a registered consequence and *)
(* new registered nowhere moves the mechanism entry from key old to key    *)
(* new with its variable list, moves the utility entries old -> new and    *)
(* Not('old') -> Not('new') with their values and creates none that did    *)
(* not exist, and leaves the mechanism and utility entries of the other    *)
(* consequences as they were.  (A mechanism list may hold old itself; the  *)
(* formula accepts it kept or replaced by new.)                            *)
C14_RenameConsequenceMovesEntries ==
    [][\A old, new \in Names :
          (/\ CallRenameConsequence(old, new)
           /\ InList(old, consequences)
           /\ new \notin Registered)
          => /\ DOMAIN mechanisms' =
                    (DOMAIN mechanisms \ {old})
                    \cup (IF old \in DOMAIN mechanisms THEN {new} ELSE {})
             /\ \A k \in DOMAIN mechanisms :
                    mechanisms'[IF k = old THEN new ELSE k]
                        \in {mechanisms[k], Renamed(mechanisms[k], old, new)}
             /\ utilities' = UtilitiesRenamed(utilities, old, new)]_vars

(* C15: in every reachable state and for every name n, add_X(n) applied    *)
(* twice leaves the same registry membership as applied once, and          *)
(* remove_X(n) applied twice leaves the same registry membership as        *)
(* applied once and raises in neither call (X: actions, background,        *)
(* consequences).  The step is the first application; the second is        *)
(* applied to the state the step leaves.                                   *)
C15_AddRemoveIdempotent ==
    [][\A n \in Names :
          /\ CallAddActions(<<n>>)
             => Membership(add_actions(Self', <<n>>).m) = Membership(Self')
          /\ CallAddBackground(<<n>>)
             => Membership(add_background(Self', <<n>>).m)
                    = Membership(Self')
          /\ CallAddConsequences(<<n>>)
             => Membership(add_consequences(Self', <<n>>).m)
                    = Membership(Self')
          /\ CallRemoveActions(<<n>>)
             => /\ err' = "none"
                /\ remove_actions(Self', <<n>>).err = "none"
                /\ Membership(remove_actions(Self', <<n>>).m)
                       = Membership(Self')
          /\ CallRemoveBackground(<<n>>)
             => /\ err' = "none"
                /\ remove_background(Self', <<n>>).err = "none"
                /\ Membership(remove_background(Self', <<n>>).m)
                       = Membership(Self')
          /\ CallRemoveConsequences(<<n>>)
             => /\ err' = "none"
                /\ remove_consequences(Self', <<n>>).err = "none"
                /\ Membership(remove_consequences(Self', <<n>>).m)
                       = Membership(Self')]_vars

(* C16: remove_intentions never removes the action's own name from its     *)
(* intention list: for every registered action A whose list holds A and    *)
(* for every argument list, A is still in the intention list of A after    *)
(* remove_intentions(A, ...) has returned or raised.                       *)
C16_OwnNameStaysIntended ==
    [][\A a \in Names : \A args \in ArgLists :
          (/\ CallRemoveIntentions(a, args)
           /\ InList(a, actions)
           /\ a \in DOMAIN intentions
           /\ InList(a, intentions[a]))
          => /\ a \in DOMAIN intentions'
             /\ InList(a, intentions'[a])]_vars

(* C17: the value validation of export accepts every assignment whose key  *)
(* set is the registered actions plus background conditions and whose      *)
(* values all lie in {0, 1}, and raises ValueError exactly when some value *)
(* lies outside {0, 1}.                                                    *)
C17_ExportValueErrorIffValueOutside01 ==
    [][last' = "export"
       => \A assignment \in Assignments : \A evaluator_ok \in BOOLEAN :
              (/\ CallExport(assignment, evaluator_ok)
               /\ DOMAIN assignment = ListSet(actions \o background))
              => (err' = "ValueError"
                  <=> AssignedValues(assignment) \ {0, 1} # {})]_vars

(* C18: export raises KeyError, before it writes any file and before it    *)
(* looks at the values, exactly when the key set of the assignment differs *)
(* from the registered actions plus background conditions (a key missing,  *)
(* or a key that is neither, a consequence included); with equal key sets  *)
(* it raises no KeyError.                                                  *)
C18_ExportKeyErrorIffKeysDiffer ==
    [][last' = "export"
       => LET model_vars == ListSet(actions \o background)
          IN  \A keys \in SUBSET Names :
              \A assignment \in ExportAssignments(keys) :
                  \/ /\ err' = "KeyError" <=> DOMAIN assignment # model_vars
                     /\ err' = "KeyError" => UNCHANGED tmp_file
                  \/ \A evaluator_ok \in BOOLEAN :
                         ~CallExport(assignment, evaluator_ok)]_vars

\* export has raised KeyError for an assignment on a model that has an
\* action and a consequence, and no file exists.
C18_Witness ==
    /\ last = "export"
    /\ err = "KeyError"
    /\ actions # <<>> /\ consequences # <<>>
    /\ ~tmp_file

(* C19: on every exit path of export, whether the constructor of the       *)
(* external evaluator returns or raises, the temporary file that export    *)
(* wrote no longer exists when export has given control back to its        *)
(* caller.                                                                 *)
C19_ExportLeavesNoTemporaryFile ==
    last = "export" => ~tmp_file

(* C20 as stated: add_mechanisms(c, v) with c a registered consequence     *)
(* fails with TypeError for every v that is not the name of a registered   *)
(* action, background condition or consequence, and accepts every          *)
(* registered variable, c itself included.                                 *)
C20_UnregisteredVariableRaisesTypeError ==
    [][last' = "add_mechanisms"
       => \A c \in ListSet(consequences) : \A v \in Values :
              \/ IF VariableKind(v) = "registered"
                 THEN err' = "none"
                 ELSE err' = "TypeError"
              \/ ~CallAddMechanisms(c, <<v>>)]_vars

(* C20 amended: add_mechanisms(c, v) with c a registered consequence       *)
(* raises TypeError for a v that is no str and KeyError for a str v that   *)
(* is registered neither as action nor as background condition nor as      *)
(* consequence; for a registered v, c itself included, it returns with v   *)
(* in the mechanism of c.  Only for a consequence that has no mechanism    *)
(* entry does a registered v raise KeyError, from the lookup of the        *)
(* mechanism.                                                              *)
C20_VariableCheckOfAddMechanisms ==
    [][last' = "add_mechanisms"
       => \A c \in ListSet(consequences) : \A v \in Values :
              \/ CASE VariableKind(v) = "no str" -> err' = "TypeError"
                   [] VariableKind(v) = "unregistered" -> err' = "KeyError"
                   [] OTHER ->
                        IF c \in DOMAIN mechanisms
                        THEN err' = "none" /\ InList(v, mechanisms'[c])
                        ELSE err' = "KeyError"
              \/ ~CallAddMechanisms(c, <<v>>)]_vars

\* The second call, add_mechanisms(c, c), has returned with the registered
\* consequence c in its own mechanism.
C20_Witness ==
    /\ ncalls = 2
    /\ last = "add_mechanisms"
    /\ err = "none"
    /\ \E c \in ListSet(consequences) :
           c \in DOMAIN mechanisms /\ InList(c, mechanisms[c])

(* C21: add_mechanisms, remove_mechanisms and set_utility called with an   *)
(* unregistered consequence as first argument, add_intentions and          *)
(* remove_intentions called with an unregistered action or with an         *)
(* unregistered consequence among their (str) arguments, and rename_*      *)
(* called with an unregistered old name, raise KeyError (the other         *)
(* arguments being strings, the utility value an int).                     *)
C21_UnregisteredNameRaisesKeyError ==
    [][err' = "KeyError"
       \/ LET no_consequence == Names \ ListSet(consequences)
              no_action == Names \ ListSet(actions)
              no_background == Names \ ListSet(background)
              one_unregistered ==
                  {args \in ArgLists :
                      /\ \A i \in DOMAIN args : IsStr(args[i])
                      /\ \E i \in DOMAIN args : args[i] \in no_consequence}
          IN  CASE last' = "add_mechanisms" ->
                     \A c \in no_consequence : \A v \in Values :
                         ~CallAddMechanisms(c, <<v>>)
                [] last' = "remove_mechanisms" ->
                     \A c \in no_consequence : \A v \in Values :
                         ~CallRemoveMechanisms(c, <<v>>)
                [] last' = "set_utility" ->
                     \A c \in no_consequence : \A value \in UtilityValues :
                         \A affirmation \in BOOLEAN :
                             ~CallSetUtility(c, value, affirmation)
                [] last' = "add_intentions" ->
                     /\ \A a \in no_action : \A v \in Values :
                            ~CallAddIntentions(a, <<v>>)
                     /\ \A a \in ListSet(actions) :
                            \A args \in one_unregistered :
                                ~CallAddIntentions(a, args)
                [] last' = "remove_intentions" ->
                     /\ \A a \in no_action : \A v \in Values :
                            ~CallRemoveIntentions(a, <<v>>)
                     /\ \A a \in ListSet(actions) :
                            \A args \in one_unregistered :
                                ~CallRemoveIntentions(a, args)
                [] last' = "rename_action" ->
                     \A old \in no_action : \A new \in Names :
                         ~CallRenameAction(old, new)
                [] last' = "rename_background" ->
                     \A old \in no_background : \A new \in Names :
                         ~CallRenameBackground(old, new)
                [] last' = "rename_consequence" ->
                     \A old \in no_consequence : \A new \in Names :
                         ~CallRenameConsequence(old, new)
                [] OTHER -> TRUE]_vars

\* add_intentions has raised KeyError on a model that has an action and a
\* consequence, for an action or a consequence that is not registered.
C21_Witness ==
    /\ last = "add_intentions"
    /\ err = "KeyError"
    /\ actions # <<>>
    /\ consequences # <<>>

(* C22: check() raises the consistency error (RuntimeError) exactly when   *)
(* some registered consequence has an empty mechanism variable list, and   *)
(* returns without raising when every registered consequence has at least  *)
(* one variable in its mechanism (check() assigns nothing, so the state    *)
(* after the call is the state it was called on).                          *)
C22_CheckRaisesIffEmptyMechanism ==
    last = "check"
        => LET empty_mechanism ==
                   \E c \in ListSet(consequences) :
                       c \in DOMAIN mechanisms /\ mechanisms[c] = <<>>
           IN  /\ err = "RuntimeError" <=> empty_mechanism
               /\ ~empty_mechanism => err = "none"

\* The key of the utility of consequence c with the given polarity.
UtilityKey(c, affirmation) == IF affirmation THEN c ELSE not_str(c)

\* Every utility entry of a registered consequence other than the entry
\* (c, affirmation) is the same in utilities and utilities'.
OtherUtilitiesUnchanged(c, affirmation) ==
    \A d \in ListSet(consequences) : \A q \in BOOLEAN :
        <<d, q>> # <<c, affirmation>>
            => LET k == UtilityKey(d, q)
               IN  /\ k \in DOMAIN utilities' <=> k \in DOMAIN utilities
                   /\ k \in DOMAIN utilities => utilities'[k] = utilities[k]

(* C23: set_utility(c, v, affirmed) on a registered consequence c writes v *)
(* under key c when affirmed and under Not('c') otherwise, and changes no  *)
(* other utility entry (neither the opposite entry of c nor an entry of    *)
(* another consequence) and no other table; remove_utility deletes only    *)
(* that one entry and changes nothing when it is absent.                   *)
C23_UtilityFrame ==
    [][/\ last' = "set_utility"
          => \A c \in ListSet(consequences) : \A value \in UtilityValues :
                 \A affirmation \in BOOLEAN :
                     \/ /\ err' = "none"
                        /\ UtilityKey(c, affirmation) \in DOMAIN utilities'
                        /\ utilities'[UtilityKey(c, affirmation)] = value
                        /\ OtherUtilitiesUnchanged(c, affirmation)
                        /\ UNCHANGED <<description, actions, background,
                                       consequences, mechanisms, intentions>>
                     \/ ~CallSetUtility(c, value, affirmation)
       /\ last' = "remove_utility"
          => \A c \in ListSet(consequences) : \A affirmation \in BOOLEAN :
                 \/ /\ err' = "none"
                    /\ UtilityKey(c, affirmation) \notin DOMAIN utilities'
                    /\ OtherUtilitiesUnchanged(c, affirmation)
                    /\ UtilityKey(c, affirmation) \notin DOMAIN utilities
                           => UNCHANGED utilities
                    /\ UNCHANGED <<description, actions, background,
                                   consequences, mechanisms, intentions>>
                 \/ ~CallRemoveUtility(c, affirmation)]_vars

\* The quoted literals of the names in S in lexicographic order: the quote
\* character comes first in each, then 'A' (65) < 'B' (66) < 'N' (78).
LiteralsInOrder(S) ==
    LET members == SelectSeq(<<"A", "B", "Not('A')">>, LAMBDA n : n \in S)
    IN  [i \in DOMAIN members |-> "'" \o members[i] \o "'"]

\* The left-nested conjunction And(And(e1, e2), e3) of up to three literals.
LeftNested(e) ==
    CASE Len(e) = 0 -> ""
      [] Len(e) = 1 -> e[1]
      [] Len(e) = 2 -> "And(" \o e[1] \o ", " \o e[2] \o ")"
      [] OTHER -> "And(And(" \o e[1] \o ", " \o e[2] \o "), " \o e[3] \o ")"

(* C24: the serialized mechanism expression of a consequence depends on    *)
(* the membership of its variable list only: it is the empty string for no *)
(* variable, the quoted literal for one, and the left-nested conjunction   *)
(* of the quoted literals in lexicographic order for two or more, whatever *)
(* the order in which the variables were inserted.                         *)
C24_MechanismExpressionOfMembership ==
    \A c \in DOMAIN mechanisms :
        repr(Self).mechanisms[c]
            = LeftNested(LiteralsInOrder(ListSet(mechanisms[c])))

\* __repr__ has serialized a model with a mechanism whose variables were
\* inserted against the lexicographic order.
C24_Witness ==
    /\ last = "__repr__"
    /\ \E c \in DOMAIN mechanisms :
           /\ Len(mechanisms[c]) = 3
           /\ mechanisms[c][1] = "B"
           /\ mechanisms[c][2] = "A"

(* C25: in every reachable state every key of the utility table is the     *)
(* affirmed form c or the negated form Not('c') of a currently registered  *)
(* consequence c: no utility entry survives the removal or the renaming of *)
(* its consequence.                                                        *)
C25_UtilityKeysOfRegisteredConsequences ==
    \A k \in DOMAIN utilities :
        \E c \in ListSet(consequences) : \E q \in BOOLEAN :
            k = UtilityKey(c, q)

\* rename_consequence has returned on a model that holds a utility.
C25_Witness ==
    /\ last = "rename_consequence"
    /\ err = "none"
    /\ DOMAIN utilities # {}

(* C26: remove_actions, remove_background and remove_consequences called   *)
(* with a string that is not registered in that kind return without        *)
(* raising and leave the registry and the mechanism, utility and intention *)
(* tables unchanged, even when the name is registered under another kind   *)
(* or appears in a mechanism list.                                         *)
C26_RemoveUnregisteredIsNoOp ==
    [][/\ last' = "remove_actions"
          => \A n \in Names \ ListSet(actions) :
                 \/ err' = "none" /\ UNCHANGED fields
                 \/ ~CallRemoveActions(<<n>>)
       /\ last' = "remove_background"
          => \A n \in Names \ ListSet(background) :
                 \/ err' = "none" /\ UNCHANGED fields
                 \/ ~CallRemoveBackground(<<n>>)
       /\ last' = "remove_consequences"
          => \A n \in Names \ ListSet(consequences) :
                 \/ err' = "none" /\ UNCHANGED fields
                 \/ ~CallRemoveConsequences(<<n>>)]_vars

\* remove_background has returned on a model without background
\* conditions (so its arguments were unregistered strings) in which a
\* mechanism holds variables registered under the other kinds.
C26_Witness ==
    /\ last = "remove_background"
    /\ err = "none"
    /\ background = <<>>
    /\ \E c \in DOMAIN mechanisms : mechanisms[c] # <<>>

(* C27: serializing the model (__repr__) and the validation and            *)
(* serialization steps of export do not change the model: the registry     *)
(* lists and the mechanism, utility and intention tables, the order of     *)
(* every mechanism variable list included, are the same after the call.    *)
C27_SerializationChangesNothing ==
    [][last' \in {"__repr__", "export"} => UNCHANGED fields]_vars

\* __repr__ has serialized a model with a mechanism of two variables that
\* are not in lexicographic order.
C27_Witness ==
    /\ last = "__repr__"
    /\ err = "none"
    /\ \E c \in DOMAIN mechanisms : mechanisms[c] = <<"B", "A">>

(* C28: reset() empties the action, background and consequence lists and   *)
(* the mechanism, utility and intention tables and leaves the description  *)
(* unchanged, from any reachable state; the state after reset satisfies    *)
(* the table invariants (the keys of the mechanism and intention tables    *)
(* are the consequences and the actions, every utility key belongs to a    *)
(* consequence, every list entry is registered).                           *)
C28_ResetEmptiesAllButDescription ==
    [][last' = "reset"
       => /\ err' = "none"
          /\ actions' = <<>> /\ background' = <<>> /\ consequences' = <<>>
          /\ DOMAIN mechanisms' = {}
          /\ DOMAIN utilities' = {}
          /\ DOMAIN intentions' = {}
          /\ description' = description
          /\ DOMAIN mechanisms' = ListSet(consequences')
          /\ DOMAIN intentions' = ListSet(actions')
          /\ \A k \in DOMAIN utilities' :
                 \E c \in ListSet(consequences') : \E q \in BOOLEAN :
                     k = UtilityKey(c, q)
          /\ \A c \in DOMAIN mechanisms' :
                 ListSet(mechanisms'[c]) \subseteq
                     ListSet(actions' \o background' \o consequences')]_vars

\* reset has run after the description was changed and a name was added.
C28_Witness ==
    /\ last = "reset"
    /\ ncalls = 3
    /\ description = "Hello World!"
    /\ actions = <<>>

(* C29: in any reachable state a rename_action, rename_background or       *)
(* rename_consequence call whose arguments are strings, whose old name is  *)
(* registered in that kind and whose new name is not registered in that    *)
(* kind completes without raising (also when old is a key of the           *)
(* mechanism or intention table).                                          *)
C29_RenameToFreshNameNeverRaises ==
    [][/\ last' = "rename_action"
          => \A old \in ListSet(actions) :
                 \A new \in Names \ ListSet(actions) :
                     err' = "none" \/ ~CallRenameAction(old, new)
       /\ last' = "rename_background"
          => \A old \in ListSet(background) :
                 \A new \in Names \ ListSet(background) :
                     err' = "none" \/ ~CallRenameBackground(old, new)
       /\ last' = "rename_consequence"
          => \A old \in ListSet(consequences) :
                 \A new \in Names \ ListSet(consequences) :
                     err' = "none" \/ ~CallRenameConsequence(old, new)]_vars

(* C30: in any state reachable through the public operations,              *)
(* remove_actions, remove_background and remove_consequences called with   *)
(* string arguments never raise, and check() never fails with an error     *)
(* other than the consistency error (RuntimeError).                        *)
C30_RemoveAndCheckNeverRaiseKeyError ==
    [][/\ last' = "remove_actions"
          => \A n \in Names : err' = "none" \/ ~CallRemoveActions(<<n>>)
       /\ last' = "remove_background"
          => \A n \in Names : err' = "none" \/ ~CallRemoveBackground(<<n>>)
       /\ last' = "remove_consequences"
          => \A n \in Names :
                 err' = "none" \/ ~CallRemoveConsequences(<<n>>)
       /\ last' = "check" => err' \in {"none", "RuntimeError"}]_vars

(* C31: adding a name that is not registered in that kind and removing it  *)
(* at once (add_X(n); remove_X(n), X: actions, background, consequences)   *)
(* restores the registry and the mechanism, utility and intention tables   *)
(* to their contents before the add, from any reachable state.  The step   *)
(* is the add; the remove is applied to the state the step leaves.         *)
C31_AddThenRemoveRestores ==
    [][/\ last' = "add_actions"
          => \A n \in Names \ ListSet(actions) :
                 \/ remove_actions(Self', <<n>>) = Ok(Self)
                 \/ ~CallAddActions(<<n>>)
       /\ last' = "add_background"
          => \A n \in Names \ ListSet(background) :
                 \/ remove_background(Self', <<n>>) = Ok(Self)
                 \/ ~CallAddBackground(<<n>>)
       /\ last' = "add_consequences"
          => \A n \in Names \ ListSet(consequences) :
                 \/ remove_consequences(Self', <<n>>) = Ok(Self)
                 \/ ~CallAddConsequences(<<n>>)]_vars

(* C32: renaming and renaming back is the identity: for old registered in  *)
(* a kind and new registered in no kind, rename_X(old, new) followed by    *)
(* rename_X(new, old) restores the registry lists (same order) and the     *)
(* contents of the mechanism, utility and intention tables.  The step is   *)
(* the first rename; the second is applied to the state the step leaves.   *)
C32_RenameAndBackIsIdentity ==
    [][LET fresh == Names \ ListSet(actions \o background \o consequences)
       IN  /\ last' = "rename_action"
              => \A old \in ListSet(actions) : \A new \in fresh :
                     \/ rename_action(Self', new, old).m = Self
                     \/ ~CallRenameAction(old, new)
           /\ last' = "rename_background"
              => \A old \in ListSet(background) : \A new \in fresh :
                     \/ rename_background(Self', new, old).m = Self
                     \/ ~CallRenameBackground(old, new)
           /\ last' = "rename_consequence"
              => \A old \in ListSet(consequences) : \A new \in fresh :
                     \/ rename_consequence(Self', new, old).m = Self
                     \/ ~CallRenameConsequence(old, new)]_vars

====
